---- MODULE Spec2Model ----
(***************************************************************************)
(* Model of libavcodec/dxva2.c: the frame transaction                      *)
(* ff_dxva2_common_end_frame, the buffer commit ff_dxva2_commit_buffer and *)
(* the session lock ff_dxva2_lock / ff_dxva2_unlock.                       *)
(*                                                                         *)
(* Every thread of Threads runs one call of ff_dxva2_common_end_frame on   *)
(* the same decode session.  The locals of the call (runs, hr, result,     *)
(* buffer_count, the descriptor array) are per thread; the session's       *)
(* context_mutex is shared.  The backend (BeginFrame, GetBuffer,           *)
(* ReleaseBuffer, Execute, EndFrame) and the per-codec callback are the    *)
(* environment: each call draws its status from a small set.               *)
(*                                                                         *)
(* ff_dxva2_commit_buffer and ff_dxva2_get_surface_index are functions of  *)
(* their arguments and of the backend's answers; SpecFn calls each of them *)
(* alone, on arguments drawn from bounded sets.                            *)
(***************************************************************************)
EXTENDS Integers, Sequences, FiniteSets

\* ---------------------------------------------------------------- bounds
NumThreads == 2   \* threads that may drive the session
MaxSize    == 1   \* payload sizes and slot capacities range over 0..MaxSize
MaxBusyMT  == 2   \* busy answers of the backend in the multi-threaded runs
MaxBusyLive == 1  \* busy answers of the backend in the multi-threaded fair runs
MaxPool    == 3   \* surfaces in the session's pool (DXVA_CONTEXT_COUNT)
MaxLen     == 2   \* payload sizes and slot capacities of a commit called alone

\* ------------------------------------------------------ program constants
MAX_RUNS == 50    \* dxva2.c:191   ++runs > 50
DESC_CAP == 4     \* dxva2.c:167/170   buffer11[4], buffer2[4]

Threads == 1..NumThreads
Sizes   == 0..MaxSize

\* HRESULT values the backend calls answer with
S_OK      == "S_OK"
E_PENDING == "E_PENDING"
E_FAIL    == "E_FAIL"
HR_NONE   == "uninit"

\* FAILED(hr): E_PENDING (0x8000000A) is a failure code as well
FAILED(h) == h \in {E_PENDING, E_FAIL}

\* buffer types (DXVA2_*BufferType / D3D11_VIDEO_DECODER_BUFFER_*)
PictureParameters         == "PictureParameters"
InverseQuantizationMatrix == "InverseQuantizationMatrix"
Bitstream                 == "Bitstream"
SliceControl              == "SliceControl"

\* a descriptor of the on-stack array before anything was stored in it
\* (rest: the descriptor's fields other than type, size, macroblock count)
Unset == [type |-> "unset", size |-> 0, mb |-> 0, rest |-> "garbage"]

VARIABLES
  fn,           \* a call of one of the two functions alone: [name, st, in, out]
  cfg,          \* the session: [variant, has_mutex]
  nthreads,     \* number of threads that call into the session
  busyLeft,     \* busy answers the backend may still give
  mutex,        \* context_mutex: [owner, count]  (owner 0 = free)
  pc,           \* per thread: position in ff_dxva2_common_end_frame
  args,         \* per thread: [pp_size, qm_size], drawn where first read
  runs,         \* per thread: local `runs`
  hr,           \* per thread: local `hr`
  result,       \* per thread: local `result`
  buffer_count, \* per thread: local `buffer_count`
  buffer,       \* per thread: descriptor array, index 0..DESC_CAP-1
  ret,          \* per thread: value returned to the caller
  hist          \* per thread: record of the calls made so far

vars == <<fn, cfg, nthreads, busyLeft, mutex, pc, args, runs, hr, result,
          buffer_count, buffer, ret, hist>>

\* line 173: int result; declared without a value and written before it is
\* read; until then it holds a value that no assignment of the code gives it
RES_NONE == 1

\* history of one call: what was invoked and with which outcome
Hist0 ==
  [nLock |-> 0, nUnlock |-> 0, nBegin |-> 0, nSleep |-> 0, nCommit |-> 0,
   nCallback |-> 0, nSubmit |-> 0, nEnd |-> 0,
   stBegin |-> "none", stPP |-> "none", stQM |-> "none", stCB |-> "none",
   stSubmit |-> "none", stEnd |-> "none",
   submitted |-> <<>>, oob |-> FALSE, heldAtSleep |-> FALSE,
   unlockAfterBegin |-> 0, relAfterBegin |-> 0, resBeforeEnd |-> RES_NONE,
   slotsOut |-> 0, log |-> <<>>]

St(r) == IF r = 0 THEN "ok" ELSE "fail"
StHr(h) == IF FAILED(h) THEN "fail" ELSE "ok"
\* one entry of the record of calls: the call, the buffer type it is for,
\* what it answered, and for GetBuffer whether the payload fits the slot
Ev(call, type, st, fit) == [call |-> call, type |-> type, st |-> st, fit |-> fit]

\* ------------------------------------------------------------- the lock
\* ff_dxva2_is_d3d11
ff_dxva2_is_d3d11 == cfg.variant = "d3d11"

UsesMutex == ff_dxva2_is_d3d11 /\ cfg.has_mutex

\* ff_dxva2_lock: WaitForSingleObjectEx(context_mutex, INFINITE) for a
\* d3d11 session that has a mutex, nothing otherwise.  A Windows mutex is
\* owned by a thread and counts recursive acquisitions.
LockWithoutWaiting(t) == TRUE
LockEnabled(t) == UsesMutex => mutex.owner \in {0, t}

LockAlways(t) == [owner |-> t, count |-> mutex.count + 1]
LockTwice(t) ==
  IF UsesMutex THEN [owner |-> t, count |-> mutex.count + 2] ELSE mutex
ff_dxva2_lock(t) ==
  IF UsesMutex THEN [owner |-> t, count |-> mutex.count + 1] ELSE mutex

\* ff_dxva2_unlock: ReleaseMutex(context_mutex); it fails, changing
\* nothing, when the caller does not own the mutex.
UnlockNothing(t) == mutex
ff_dxva2_unlock(t) ==
  IF UsesMutex /\ mutex.owner = t
  THEN IF mutex.count = 1 THEN [owner |-> 0, count |-> 0]
       ELSE [owner |-> t, count |-> mutex.count - 1]
  ELSE mutex

Holds(t) == mutex.owner = t

\* the record of one call of ff_dxva2_unlock by thread t
CountUnlock(h, t) ==
  LET after == h.stBegin = "ok"
      freed == UsesMutex /\ Holds(t) /\ ff_dxva2_unlock(t).owner # t
  IN [h EXCEPT !.nUnlock = @ + 1,
               !.log = Append(@, Ev("unlock", "none", "ok", TRUE)),
               !.unlockAfterBegin = IF after THEN @ + 1 ELSE @,
               !.relAfterBegin = IF after /\ freed THEN @ + 1 ELSE @]

\* ------------------------------------------------------- buffer commit
\* ff_dxva2_commit_buffer(dsc, type, data/size, mb_count) with the
\* backend's answers: getHr and dxva_size from GetBuffer, relHr from
\* ReleaseBuffer.
\* The slot GetBuffer hands out holds dxva_size bytes of earlier content;
\* the caller's payload holds size bytes.
SlotBefore(dxva_size) == [i \in 1..dxva_size |-> "old"]
Payload(size) == [i \in 1..size |-> "data"]

\* line 112: size <= dxva_size
SizeNeverChecked(size, dxva_size) == TRUE
SizeFits(size, dxva_size) == size <= dxva_size

\* line 113: memcpy(dxva_data, data, size)
MemcpyWholeSlot(dst, src, n) == [i \in 1..Len(dst) |-> "data"]
Memcpy(dst, src, n) == [i \in 1..Len(dst) |-> IF i <= n THEN src[i] ELSE dst[i]]

\* lines 115-132: memset(dsc, 0, sizeof(*dsc)), then type, size, macroblocks
FillDesc(dsc, type, size, mb_count) ==
  [type |-> type, size |-> size, mb |-> mb_count, rest |-> "zero"]

\* lines 140-147: ReleaseBuffer is called after either branch of the size
\* test (the number of calls)
ReleaseOnlyAfterCopy(fits) == IF fits THEN 1 ELSE 0
ReleaseCalls(fits) == 1

\* lines 148-153: a failed ReleaseBuffer turns the result into -1
ResultAfterReleaseUnchecked(relHr, r) == r
ResultAfterRelease(relHr, r) == IF FAILED(relHr) THEN -1 ELSE r

\* lines 84-155.  The value tells what the call did: its result, the
\* caller's descriptor and the slot's bytes afterwards, the bytes copied,
\* and how often the slot was acquired and released.
ff_dxva2_commit_buffer(dsc, type, size, mb_count, getHr, dxva_size, relHr) ==
  IF FAILED(getHr)
  THEN [result |-> -1, dsc |-> dsc, slot |-> <<>>, copied |-> 0,
        acquired |-> 0, released |-> 0, relType |-> "none", fits |-> FALSE]
  ELSE LET fits == SizeFits(size, dxva_size)
           r0   == IF fits THEN 0 ELSE -1
           rel  == ReleaseCalls(fits)
       IN [result   |-> IF rel > 0 THEN ResultAfterRelease(relHr, r0) ELSE r0,
           dsc      |-> IF fits THEN FillDesc(dsc, type, size, mb_count) ELSE dsc,
           slot     |-> IF fits THEN Memcpy(SlotBefore(dxva_size), Payload(size), size)
                        ELSE SlotBefore(dxva_size),
           copied   |-> IF fits THEN size ELSE 0,
           acquired |-> 1,
           released |-> rel,
           relType  |-> IF rel > 0 THEN type ELSE "none",
           fits     |-> fits]

\* the decoder calls one commit has made, in order, with their answers
CommitCalled(c, type, getHr, relHr) ==
  <<Ev("GetBuffer", type, StHr(getHr), c.fits)>> \o
  (IF c.released > 0 THEN <<Ev("ReleaseBuffer", c.relType, StHr(relHr), c.fits)>>
   ELSE <<>>)

\* a store through &buffer[i]: inside the array it replaces the element
Store(buf, i, d) == IF i < DESC_CAP THEN [buf EXCEPT ![i] = d] ELSE buf
OutOfRange(i) == i >= DESC_CAP

\* ----------------------------------------------------------------- Init
\* no function is called alone
NoCall == [name |-> "none"]

InitLocals ==
  /\ pc = [t \in Threads |-> "idle"]
  /\ args = [t \in Threads |-> [pp_size |-> 0, qm_size |-> 0]]
  /\ runs = [t \in Threads |-> 0]
  /\ hr = [t \in Threads |-> HR_NONE]
  /\ result = [t \in Threads |-> RES_NONE]
  /\ buffer_count = [t \in Threads |-> 0]
  /\ buffer = [t \in Threads |-> [i \in 0..(DESC_CAP - 1) |-> Unset]]
  /\ ret = [t \in Threads |-> RES_NONE]
  /\ hist = [t \in Threads |-> Hist0]
  /\ mutex = [owner |-> 0, count |-> 0]

\* one thread, any session, a backend that may stay busy beyond the budget
Init ==
  /\ cfg \in {[variant |-> "dxva2", has_mutex |-> FALSE],
              [variant |-> "d3d11", has_mutex |-> FALSE],
              [variant |-> "d3d11", has_mutex |-> TRUE]}
  /\ fn = NoCall
  /\ nthreads = 1
  /\ busyLeft = MAX_RUNS + 2
  /\ InitLocals

\* several threads on an array-slice session with a mutex
InitMT ==
  /\ cfg = [variant |-> "d3d11", has_mutex |-> TRUE]
  /\ fn = NoCall
  /\ nthreads = NumThreads
  /\ busyLeft = MaxBusyMT
  /\ InitLocals

\* the threads that call into the session
Caller(t) == t \in 1..nthreads

\* The step from the final unlock to the caller is the thread's own and
\* touches nothing shared: it is taken before any other thread moves on.
NoReturnPending == \A u \in Threads : pc[u] # "done"

\* thread t may take a step of the function
Turn(t) == Caller(t) /\ NoReturnPending

\* -------------------------------------------------------------- actions
\* entry of ff_dxva2_common_end_frame: buffer_count = 0, runs = 0.  The
\* payload sizes pp_size and qm_size are inputs of the call; the code reads
\* them first at lines 215 and 225, and they are drawn there (CommitPP).
Call(t) ==
  /\ Turn(t) /\ pc[t] = "idle"
  /\ pc' = [pc EXCEPT ![t] = "lock"]
  /\ UNCHANGED <<fn, cfg, nthreads, busyLeft, mutex, args, runs, hr, result,
                 buffer_count, buffer, ret, hist>>

\* line 178: ff_dxva2_lock
Lock(t) ==
  /\ Turn(t) /\ pc[t] = "lock"
  /\ LockEnabled(t)
  /\ mutex' = ff_dxva2_lock(t)
  /\ hist' = [hist EXCEPT ![t].nLock = @ + 1,
                          ![t].log = Append(@, Ev("lock", "none", "ok", TRUE))]
  /\ pc' = [pc EXCEPT ![t] = "begin"]
  /\ UNCHANGED <<fn, cfg, nthreads, busyLeft, args, runs, hr, result,
                 buffer_count, buffer, ret>>

\* the loop's exit test, line 191: hr != E_PENDING || ++runs > 50
RunsAfter(h, r) == IF h # E_PENDING THEN r ELSE r + 1
BreakOneLater(h, r) == h # E_PENDING \/ RunsAfter(h, r) > MAX_RUNS + 1
BreakOnBudgetOnly(h, r) == r + 1 > MAX_RUNS
Break(h, r) == h # E_PENDING \/ RunsAfter(h, r) > MAX_RUNS
\* line 197: where the code goes once the loop is left
AfterLoopHardOnly(h) == IF h = E_FAIL THEN "abort" ELSE "pp"
AfterLoopEndsFrame(h) == IF FAILED(h) THEN "end" ELSE "pp"
AfterLoop(h) == IF FAILED(h) THEN "abort" ELSE "pp"

\* lines 179-192: BeginFrame and the loop's exit test
BeginFrame(t) ==
  /\ Turn(t) /\ pc[t] = "begin"
  /\ \E h \in {S_OK, E_FAIL} \cup (IF busyLeft > 0 THEN {E_PENDING} ELSE {}) :
       /\ hr' = [hr EXCEPT ![t] = h]
       /\ busyLeft' = IF h = E_PENDING THEN busyLeft - 1 ELSE busyLeft
       /\ runs' = [runs EXCEPT ![t] = RunsAfter(h, @)]
       /\ pc' = [pc EXCEPT ![t] = IF Break(h, runs[t]) THEN AfterLoop(h)
                                   ELSE "retry_unlock"]
       /\ hist' = [hist EXCEPT ![t].nBegin = @ + 1,
                               ![t].stBegin = IF h = E_PENDING THEN "busy"
                                              ELSE StHr(h),
                               ![t].log = Append(@, Ev("BeginFrame", "none",
                                                       IF h = E_PENDING THEN "busy"
                                                       ELSE StHr(h), TRUE))]
  /\ UNCHANGED <<fn, cfg, nthreads, mutex, args, result, buffer_count, buffer, ret>>

\* line 193: ff_dxva2_unlock before the sleep
RetryUnlock(t) ==
  /\ Turn(t) /\ pc[t] = "retry_unlock"
  /\ mutex' = ff_dxva2_unlock(t)
  /\ hist' = [hist EXCEPT ![t] = CountUnlock(@, t)]
  /\ pc' = [pc EXCEPT ![t] = "sleep"]
  /\ UNCHANGED <<fn, cfg, nthreads, busyLeft, args, runs, hr, result,
                 buffer_count, buffer, ret>>

\* line 194: av_usleep(2000), then back to the top of the loop
Sleep(t) ==
  /\ Turn(t) /\ pc[t] = "sleep"
  /\ hist' = [hist EXCEPT ![t].log = Append(@, Ev("sleep", "none", "ok", TRUE)),
                          ![t].nSleep = @ + 1,
                          ![t].heldAtSleep = @ \/ (UsesMutex /\ Holds(t))]
  /\ pc' = [pc EXCEPT ![t] = "lock"]
  /\ UNCHANGED <<fn, cfg, nthreads, busyLeft, mutex, args, runs, hr, result,
                 buffer_count, buffer, ret>>

\* lines 197-201: FAILED(hr): unlock, return -1
Abort(t) ==
  /\ Turn(t) /\ pc[t] = "abort"
  /\ mutex' = ff_dxva2_unlock(t)
  /\ hist' = [hist EXCEPT ![t] = CountUnlock(@, t)]
  /\ ret' = [ret EXCEPT ![t] = -1]
  /\ pc' = [pc EXCEPT ![t] = "done"]
  /\ UNCHANGED <<fn, cfg, nthreads, busyLeft, args, runs, hr, result,
                 buffer_count, buffer>>

\* lines 221, 244, 268: goto end
GotoEndSkipsEndFrame == "end_unlock"
GotoEndFallsThrough == "submit"
GotoEnd == "end"

\* line 225: the quant-matrix commit runs only for a nonzero qm_size
AfterPP(q) == IF q > 0 THEN "qm" ELSE "bs_si"

\* the caller's test after a commit: goto end on failure, else buffer_count++
CountAfterCommit(r, n) == IF r # 0 THEN n ELSE n + 1

\* lines 203-223: commit of the picture parameters into buffer[buffer_count]
CommitPP(t) ==
  /\ Turn(t) /\ pc[t] = "pp"
  /\ \E pp_size \in Sizes, qm_size \in Sizes,
        getHr \in {S_OK, E_FAIL}, dxva_size \in Sizes, relHr \in {S_OK, E_FAIL} :
       LET i == buffer_count[t]
           c == ff_dxva2_commit_buffer(buffer[t][i], PictureParameters,
                                       pp_size, 0, getHr, dxva_size, relHr)
       IN /\ args' = [args EXCEPT ![t] = [pp_size |-> pp_size, qm_size |-> qm_size]]
          /\ buffer' = [buffer EXCEPT ![t] = Store(@, i, c.dsc)]
          /\ result' = [result EXCEPT ![t] = c.result]
          /\ buffer_count' = [buffer_count EXCEPT ![t] = CountAfterCommit(c.result, @)]
          /\ pc' = [pc EXCEPT ![t] = IF c.result # 0 THEN GotoEnd
                                      ELSE AfterPP(qm_size)]
          /\ hist' = [hist EXCEPT ![t].nCommit = @ + 1,
                                  ![t].stPP = St(c.result),
                                  ![t].slotsOut = @ + c.acquired - c.released,
                                  ![t].log = @ \o CommitCalled(c, PictureParameters, getHr, relHr),
                                  ![t].oob = @ \/ OutOfRange(i)]
  /\ UNCHANGED <<fn, cfg, nthreads, busyLeft, mutex, runs, hr, ret>>

\* lines 225-247: commit of the inverse quantization matrix
CommitQM(t) ==
  /\ Turn(t) /\ pc[t] = "qm"
  /\ \E getHr \in {S_OK, E_FAIL}, dxva_size \in Sizes, relHr \in {S_OK, E_FAIL} :
       LET i == buffer_count[t]
           c == ff_dxva2_commit_buffer(buffer[t][i], InverseQuantizationMatrix,
                                       args[t].qm_size, 0, getHr, dxva_size, relHr)
       IN /\ buffer' = [buffer EXCEPT ![t] = Store(@, i, c.dsc)]
          /\ result' = [result EXCEPT ![t] = c.result]
          /\ buffer_count' = [buffer_count EXCEPT ![t] = CountAfterCommit(c.result, @)]
          /\ pc' = [pc EXCEPT ![t] = IF c.result # 0 THEN GotoEnd ELSE "bs_si"]
          /\ hist' = [hist EXCEPT ![t].nCommit = @ + 1,
                                  ![t].stQM = St(c.result),
                                  ![t].slotsOut = @ + c.acquired - c.released,
                                  ![t].log = @ \o CommitCalled(c, InverseQuantizationMatrix, getHr, relHr),
                                  ![t].oob = @ \/ OutOfRange(i)]
  /\ UNCHANGED <<fn, cfg, nthreads, busyLeft, mutex, args, runs, hr, ret>>

\* the per-codec callback commit_bs_si(avctx, bs, slice): it returns 0 or
\* -1; on success it has filled both descriptors, on failure it may have
\* filled none, the bitstream one, or both.
CallbackOutcomes ==
  {[r |-> 0, w |-> 2], [r |-> -1, w |-> 0], [r |-> -1, w |-> 1], [r |-> -1, w |-> 2]}

commit_bs_si(buf, bs, slice, w) ==
  LET b1 == IF w >= 1 THEN Store(buf, bs, [type |-> Bitstream, size |-> 0, mb |-> 0, rest |-> "zero"])
            ELSE buf
  IN IF w >= 2 THEN Store(b1, slice, [type |-> SliceControl, size |-> 0, mb |-> 0, rest |-> "zero"])
     ELSE b1

\* lines 249-260: the two descriptors handed to the callback
BsIndex(n)    == n + 0
SliceIndexOneFurther(n) == n + 2
SliceIndex(n) == n + 1

\* line 270
CountAfterCallback(n) == n + 2

\* line 274: assert(buffer_count == 1 + (qm_size > 0) + 2)
AssertCount(n, q) == n = 1 + (IF q > 0 THEN 1 ELSE 0) + 2

\* lines 249-274: the callback, buffer_count += 2 and the assertion
Callback(t) ==
  /\ Turn(t) /\ pc[t] = "bs_si"
  /\ \E o \in CallbackOutcomes :
       LET bs == BsIndex(buffer_count[t])
           sl == SliceIndex(buffer_count[t])
           n  == CountAfterCallback(buffer_count[t])
       IN /\ buffer' = [buffer EXCEPT ![t] = commit_bs_si(@, bs, sl, o.w)]
          /\ result' = [result EXCEPT ![t] = o.r]
          /\ buffer_count' = [buffer_count EXCEPT ![t] = IF o.r # 0 THEN @ ELSE n]
          /\ pc' = [pc EXCEPT ![t] = IF o.r # 0 THEN GotoEnd
                                      ELSE IF AssertCount(n, args[t].qm_size)
                                           THEN "submit" ELSE "assert_failed"]
          /\ hist' = [hist EXCEPT ![t].nCallback = @ + 1,
                                  ![t].log = Append(@, Ev("callback", "none", St(o.r), TRUE)),
                                  ![t].stCB = St(o.r),
                                  ![t].oob = @ \/ OutOfRange(bs) \/ OutOfRange(sl)]
  /\ UNCHANGED <<fn, cfg, nthreads, busyLeft, mutex, args, runs, hr, ret>>

\* the batch handed to SubmitDecoderBuffers / Execute: buffer[0..n-1]
Batch(buf, n) == [i \in 1..n |-> IF i - 1 < DESC_CAP THEN buf[i - 1].type ELSE "beyond"]

\* lines 292-295
ResultAfterSubmitUnchecked(h, r) == r
ResultAfterSubmit(h, r) == IF FAILED(h) THEN -1 ELSE r

\* lines 276-295: SubmitDecoderBuffers / Execute
Submit(t) ==
  /\ Turn(t) /\ pc[t] = "submit"
  /\ \E h \in {S_OK, E_FAIL} :
       /\ hr' = [hr EXCEPT ![t] = h]
       /\ result' = [result EXCEPT ![t] = ResultAfterSubmit(h, @)]
       /\ hist' = [hist EXCEPT ![t].nSubmit = @ + 1,
                               ![t].stSubmit = StHr(h),
                               ![t].log = Append(@, Ev("Execute", "none", StHr(h), TRUE)),
                               ![t].submitted = Batch(buffer[t], buffer_count[t]),
                               ![t].oob = @ \/ buffer_count[t] > DESC_CAP]
  /\ pc' = [pc EXCEPT ![t] = "end"]
  /\ UNCHANGED <<fn, cfg, nthreads, busyLeft, mutex, args, runs, buffer_count,
                 buffer, ret>>

\* lines 297-305: end: DecoderEndFrame / EndFrame
EndFrame(t) ==
  /\ Turn(t) /\ pc[t] = "end"
  /\ \E h \in {S_OK, E_FAIL} :
       /\ hr' = [hr EXCEPT ![t] = h]
       /\ hist' = [hist EXCEPT ![t].nEnd = @ + 1, ![t].stEnd = StHr(h),
                               ![t].log = Append(@, Ev("EndFrame", "none", StHr(h), TRUE)),
                               ![t].resBeforeEnd = result[t]]
  /\ pc' = [pc EXCEPT ![t] = "end_unlock"]
  /\ UNCHANGED <<fn, cfg, nthreads, busyLeft, mutex, args, runs, result,
                 buffer_count, buffer, ret>>

\* lines 307-312: a failed EndFrame turns the result into -1
ResultAfterEndLastWins(h, r) == IF FAILED(h) THEN -1 ELSE 0
ResultAfterEndUnchecked(h, r) == r
ResultAfterEnd(h, r) == IF FAILED(h) THEN -1 ELSE r

\* lines 306-312: ff_dxva2_unlock, the test of EndFrame's status, return
EndUnlock(t) ==
  /\ Turn(t) /\ pc[t] = "end_unlock"
  /\ mutex' = ff_dxva2_unlock(t)
  /\ hist' = [hist EXCEPT ![t] = CountUnlock(@, t)]
  /\ result' = [result EXCEPT ![t] = ResultAfterEnd(hr[t], @)]
  /\ ret' = [ret EXCEPT ![t] = ResultAfterEnd(hr[t], result[t])]
  /\ pc' = [pc EXCEPT ![t] = "done"]
  /\ UNCHANGED <<fn, cfg, nthreads, busyLeft, args, runs, hr, buffer_count, buffer>>

\* the call has returned: its frame is gone, the caller keeps the value
Return(t) ==
  /\ Caller(t) /\ pc[t] = "done"
  /\ pc' = [pc EXCEPT ![t] = "returned"]
  /\ args' = [args EXCEPT ![t] = [pp_size |-> 0, qm_size |-> 0]]
  /\ runs' = [runs EXCEPT ![t] = 0]
  /\ hr' = [hr EXCEPT ![t] = HR_NONE]
  /\ result' = [result EXCEPT ![t] = RES_NONE]
  /\ buffer_count' = [buffer_count EXCEPT ![t] = 0]
  /\ buffer' = [buffer EXCEPT ![t] = [i \in 0..(DESC_CAP - 1) |-> Unset]]
  /\ hist' = [hist EXCEPT ![t] = Hist0]
  /\ UNCHANGED <<fn, cfg, nthreads, busyLeft, mutex, ret>>

Next ==
  \E t \in Threads :
    \/ Call(t)
    \/ Lock(t)
    \/ BeginFrame(t)
    \/ RetryUnlock(t)
    \/ Sleep(t)
    \/ Abort(t)
    \/ CommitPP(t)
    \/ CommitQM(t)
    \/ Callback(t)
    \/ Submit(t)
    \/ EndFrame(t)
    \/ EndUnlock(t)
    \/ Return(t)

Spec   == Init /\ [][Next]_vars
SpecMT == InitMT /\ [][Next]_vars

\* several threads on one d3d11 session that has a mutex
InitLive ==
  /\ fn = NoCall
  /\ cfg = [variant |-> "d3d11", has_mutex |-> TRUE]
  /\ nthreads = NumThreads
  /\ busyLeft = MaxBusyLive
  /\ InitLocals

\* one step of thread t
ThreadNext(t) ==
  \/ Call(t) \/ Lock(t) \/ BeginFrame(t) \/ RetryUnlock(t) \/ Sleep(t)
  \/ Abort(t) \/ CommitPP(t) \/ CommitQM(t) \/ Callback(t) \/ Submit(t)
  \/ EndFrame(t) \/ EndUnlock(t) \/ Return(t)

\* One thread or several on one session, each thread scheduled again and
\* again: a thread that can take a step does not wait forever.  A thread
\* in WaitForSingleObjectEx can take its step when the mutex is free; the
\* decoder's calls and av_usleep return.  Every step of a thread moves
\* its pc.
SpecLive ==
  /\ Init \/ InitLive
  /\ [][Next]_vars
  /\ \A t \in Threads : WF_pc(ThreadNext(t))

\* lines 74-77: the scan of the pool from index i on; -1 if nothing matches
RECURSIVE ScanFromEnd(_, _, _)
ScanFromEnd(pool, surface, i) ==
  IF Len(pool) - i < 1 THEN -1
  ELSE IF pool[Len(pool) - i] = surface THEN Len(pool) - i - 1
  ELSE ScanFromEnd(pool, surface, i + 1)
RECURSIVE Scan(_, _, _)
Scan(pool, surface, i) ==
  IF i >= Len(pool) THEN -1
  ELSE IF pool[i + 1] = surface THEN i
  ELSE Scan(pool, surface, i + 1)

\* lines 80-81: assert(0); return 0;  With NDEBUG the assertion is compiled
\* out and the function returns 0.
NotFoundReturnsZero(ndebug) == [returns |-> TRUE, index |-> 0, asserted |-> FALSE]
NotFound(ndebug) ==
  IF ndebug THEN [returns |-> TRUE, index |-> 0, asserted |-> FALSE]
  ELSE [returns |-> FALSE, index |-> -1, asserted |-> TRUE]

\* lines 59-82.  slice is the ArraySlice of the surface's view descriptor.
ff_dxva2_get_surface_index(pool, surface, slice, ndebug) ==
  IF ff_dxva2_is_d3d11
  THEN [returns |-> TRUE, index |-> slice, asserted |-> FALSE]
  ELSE LET i == Scan(pool, surface, 0)
       IN IF i >= 0 THEN [returns |-> TRUE, index |-> i, asserted |-> FALSE]
          ELSE NotFound(ndebug)

Surfaces  == 0..MaxPool
Pools     == UNION {[1..n -> Surfaces] : n \in 0..MaxPool}
FnSizes   == 0..MaxLen
BufTypes  == {PictureParameters, InverseQuantizationMatrix, Bitstream, SliceControl}
FilledBefore == [type |-> SliceControl, size |-> MaxLen, mb |-> 1, rest |-> "zero"]

CommitCalls ==
  [dsc : {Unset, FilledBefore}, type : BufTypes, size : FnSizes, mb_count : 0..1,
   getHr : {S_OK, E_FAIL}, dxva_size : FnSizes, relHr : {S_OK, E_FAIL}]

SurfaceCalls ==
  [pool : Pools, surface : Surfaces, slice : 0..MaxPool, ndebug : BOOLEAN]

Sessions ==
  {[variant |-> "dxva2", has_mutex |-> FALSE],
   [variant |-> "d3d11", has_mutex |-> FALSE],
   [variant |-> "d3d11", has_mutex |-> TRUE]}

\* one of the two functions is called, on any session, with any arguments
InitFn ==
  /\ cfg \in Sessions
  /\ \/ \E c \in CommitCalls : fn = [name |-> "commit", st |-> "called", in |-> c]
     \/ \E c \in SurfaceCalls : fn = [name |-> "surface", st |-> "called", in |-> c]
  /\ nthreads = 0
  /\ busyLeft = 0
  /\ InitLocals

\* ff_dxva2_commit_buffer runs and returns
CommitBuffer ==
  /\ fn.name = "commit" /\ fn.st = "called"
  /\ fn' = [name |-> "commit", st |-> "returned", in |-> fn.in,
            out |-> ff_dxva2_commit_buffer(fn.in.dsc, fn.in.type, fn.in.size,
                                           fn.in.mb_count, fn.in.getHr,
                                           fn.in.dxva_size, fn.in.relHr)]
  /\ UNCHANGED <<cfg, nthreads, busyLeft, mutex, pc, args, runs, hr, result,
                 buffer_count, buffer, ret, hist>>

\* ff_dxva2_get_surface_index runs and returns, or stops in the assertion
GetSurfaceIndex ==
  /\ fn.name = "surface" /\ fn.st = "called"
  /\ fn' = [name |-> "surface", st |-> "returned", in |-> fn.in,
            out |-> ff_dxva2_get_surface_index(fn.in.pool, fn.in.surface,
                                               fn.in.slice, fn.in.ndebug)]
  /\ UNCHANGED <<cfg, nthreads, busyLeft, mutex, pc, args, runs, hr, result,
                 buffer_count, buffer, ret, hist>>

NextFn == CommitBuffer \/ GetSurfaceIndex

SpecFn == InitFn /\ [][NextFn]_vars

\* the transaction of one thread and the functions called alone
SpecAll == (Init \/ InitFn) /\ [][Next \/ NextFn]_vars

TypeOK ==
  /\ \A t \in Threads : runs[t] \in 0..(MAX_RUNS + 1)
  /\ \A t \in Threads : buffer_count[t] \in 0..DESC_CAP

\* --------------------------------------------------------- properties
Done(t)    == pc[t] = "done"
BeginOK(t) == hist[t].stBegin = "ok"
ActivePcs  == {"pp", "qm", "bs_si", "submit", "end", "end_unlock", "assert_failed"}
LoopPcs    == {"lock", "begin", "retry_unlock", "sleep"}

\* C1: in a call whose BeginFrame succeeded, EndFrame is invoked exactly
\* once and the lock is released exactly once before the return, whatever
\* the commits, the callback, Execute and EndFrame itself report: never
\* more than once on the way, exactly once at the return, and a session
\* mutex is held until that release and free of the caller after it.
C1_EndFrameAndUnlockOnce ==
  \A t \in Threads :
    BeginOK(t) =>
      /\ hist[t].nEnd <= 1 /\ hist[t].unlockAfterBegin <= 1
      /\ hist[t].unlockAfterBegin = 1 => hist[t].nEnd = 1
      /\ hist[t].unlockAfterBegin = 0 /\ UsesMutex => Holds(t)
      /\ Done(t) => /\ hist[t].nEnd = 1
                    /\ hist[t].unlockAfterBegin = 1
                    /\ UsesMutex => hist[t].relAfterBegin = 1 /\ ~Holds(t)

\* a call that ended through a failed picture-parameters commit
C1_Witness ==
  \E t \in Threads :
    /\ Done(t) /\ BeginOK(t) /\ UsesMutex
    /\ hist[t].stPP = "fail" /\ hist[t].nEnd = 1 /\ hist[t].relAfterBegin = 1

\* C2: when BeginFrame ends in a hard failure or the retry budget is
\* exhausted, the call returns -1 with the lock not held, and no commit,
\* no callback, no Execute and no EndFrame was made: the part of the
\* function after line 201 is entered only after a successful BeginFrame.
C2_AbortDoesNothing ==
  \A t \in Threads :
    /\ pc[t] \in ActivePcs => BeginOK(t)
    /\ pc[t] \in {"abort", "done"} /\ ~BeginOK(t) =>
         /\ hist[t].stBegin \in {"fail", "busy"}
         /\ hist[t].nCommit = 0 /\ hist[t].nCallback = 0
         /\ hist[t].nSubmit = 0 /\ hist[t].nEnd = 0
    /\ Done(t) /\ ~BeginOK(t) =>
         /\ ret[t] = -1
         /\ ~Holds(t)
         /\ hist[t].nLock = hist[t].nUnlock

\* a call that gave up after the budget, on a session with a mutex
C2_Witness ==
  \E t \in Threads :
    Done(t) /\ hist[t].stBegin = "busy" /\ ret[t] = -1 /\ UsesMutex /\ ~Holds(t)

\* C3 as stated: BeginFrame is attempted at most 50 times in one call
C3_AtMost50Attempts ==
  \A t \in Threads : hist[t].nBegin <= MAX_RUNS

\* C3, amended: BeginFrame is attempted at most 51 times in one call (the
\* first attempt and up to 50 retries); the call gives up on a busy
\* backend exactly when attempts 1 through 51 were all busy, and then it
\* returns -1 without a further attempt, without entering the active part
\* and with the lock not held.
C3_AtMost51Attempts ==
  \A t \in Threads :
    /\ hist[t].nBegin <= MAX_RUNS + 1
    /\ pc[t] \in {"abort", "done"} /\ hist[t].stBegin = "busy" =>
         /\ hist[t].nBegin = MAX_RUNS + 1
         /\ hist[t].nCommit = 0 /\ hist[t].nCallback = 0
         /\ hist[t].nSubmit = 0 /\ hist[t].nEnd = 0
    /\ Done(t) /\ hist[t].stBegin = "busy" => ret[t] = -1 /\ ~Holds(t)
    /\ hist[t].stBegin = "busy" /\ hist[t].nBegin <= MAX_RUNS =>
         pc[t] = "retry_unlock" \/ pc[t] \in LoopPcs

\* the 51st attempt was busy as well, and the backend would have said so again
C3_Witness ==
  \E t \in Threads :
    /\ Done(t) /\ hist[t].stBegin = "busy" /\ hist[t].nBegin = MAX_RUNS + 1
    /\ busyLeft > 0 /\ ret[t] = -1

\* C4: a busy BeginFrame causes at most 50 retries; each retry is preceded
\* by an unlock and one sleep during which the lock is not held, and the
\* lock is taken again before the next BeginFrame; a status other than
\* busy leaves the loop at once, without a sleep.
C4_RetryDiscipline ==
  \A t \in Threads :
    /\ hist[t].nSleep <= MAX_RUNS
    /\ ~hist[t].heldAtSleep
    /\ pc[t] \in {"retry_unlock", "sleep"} => hr[t] = E_PENDING
    /\ pc[t] = "sleep" =>
         /\ ~Holds(t)
         /\ hist[t].nUnlock = hist[t].nSleep + 1
    /\ pc[t] = "begin" =>
         /\ UsesMutex => Holds(t) /\ mutex.count = 1
         /\ hist[t].nLock = hist[t].nBegin + 1
         /\ hist[t].nUnlock = hist[t].nBegin
         /\ hist[t].nSleep = hist[t].nBegin
    /\ pc[t] \in ActivePcs \cup {"abort", "done"} =>
         hist[t].nSleep = hist[t].nBegin - 1

\* the 51st attempt, made after 50 sleeps, with the mutex taken again
C4_Witness ==
  \E t \in Threads :
    pc[t] = "begin" /\ hist[t].nSleep = MAX_RUNS /\ UsesMutex /\ Holds(t)

\* the steps before Execute all succeeded
PriorOK(t) ==
  /\ hist[t].stPP = "ok"
  /\ args[t].qm_size > 0 => hist[t].stQM = "ok"
  /\ hist[t].stCB = "ok"

StepNames == {"stPP", "stQM", "stCB", "stSubmit", "stEnd"}
NoStepFailed(t) == \A s \in StepNames : hist[t][s] # "fail"

\* C5: the call returns 0 if and only if BeginFrame succeeded and every
\* step that ran after it succeeded (the picture-parameters commit, the
\* quant-matrix commit when qm_size > 0, the callback, Execute, EndFrame);
\* one failed step makes the returned value -1 whatever the later steps
\* report, and a call that returns 0 has run all of them.
C5_SuccessIffAllStepsOK ==
  \A t \in Threads :
    Done(t) =>
      /\ ret[t] \in {0, -1}
      /\ ret[t] = 0 <=> BeginOK(t) /\ NoStepFailed(t)
      /\ ret[t] = 0 => /\ PriorOK(t)
                       /\ hist[t].stSubmit = "ok" /\ hist[t].stEnd = "ok"
                       /\ args[t].qm_size = 0 => hist[t].stQM = "none"

\* a successful call that committed a quant matrix
C5_Witness ==
  \E t \in Threads :
    Done(t) /\ ret[t] = 0 /\ args[t].qm_size > 0 /\ hist[t].stQM = "ok"

\* C6 as stated: the outcome returned by a call whose BeginFrame succeeded
\* is the outcome of EndFrame
C6_OutcomeIsEndFrames ==
  \A t \in Threads :
    Done(t) /\ BeginOK(t) => (ret[t] = 0 <=> hist[t].stEnd = "ok")

\* C6, amended: a failed EndFrame overwrites whatever result the commits,
\* the callback and Execute recorded, so the call returns -1; a successful
\* EndFrame overwrites nothing, and the call returns the result recorded
\* before EndFrame.
C6_EndFrameFailureOverwrites ==
  \A t \in Threads :
    Done(t) /\ BeginOK(t) =>
      /\ hist[t].stEnd = "fail" => ret[t] = -1
      /\ hist[t].stEnd = "ok" => ret[t] = hist[t].resBeforeEnd
      /\ hist[t].stEnd \in {"ok", "fail"}

\* Execute succeeded, EndFrame failed, the call returns -1
C6_Witness ==
  \E t \in Threads :
    /\ Done(t) /\ hist[t].stSubmit = "ok" /\ hist[t].resBeforeEnd = 0
    /\ hist[t].stEnd = "fail" /\ ret[t] = -1

\* C7: Execute is called if and only if BeginFrame succeeded and every
\* commit before it succeeded, and then exactly once; when it fails the
\* call returns -1, EndFrame is still invoked and the lock still released.
C7_SubmitIffPriorOK ==
  \A t \in Threads :
    /\ hist[t].nSubmit <= 1
    /\ hist[t].nSubmit = 1 => BeginOK(t) /\ PriorOK(t)
    /\ pc[t] \in {"end", "end_unlock", "done"} /\ BeginOK(t) /\ PriorOK(t) =>
         hist[t].nSubmit = 1
    /\ hist[t].nSubmit = 0 <=> hist[t].stSubmit = "none"
    /\ Done(t) /\ hist[t].stSubmit = "fail" =>
         /\ ret[t] = -1
         /\ hist[t].nEnd = 1
         /\ hist[t].unlockAfterBegin = 1
         /\ ~Holds(t)

\* Execute failed after successful commits; EndFrame ran, the mutex is free
C7_Witness ==
  \E t \in Threads :
    /\ Done(t) /\ hist[t].stPP = "ok" /\ hist[t].stSubmit = "fail"
    /\ ret[t] = -1 /\ hist[t].nEnd = 1 /\ UsesMutex /\ ~Holds(t)

ExpectedBatch(q) ==
  IF q > 0
  THEN <<PictureParameters, InverseQuantizationMatrix, Bitstream, SliceControl>>
  ELSE <<PictureParameters, Bitstream, SliceControl>>

\* C8: the batch handed to Execute is picture parameters, inverse
\* quantization matrix if and only if qm_size is nonzero, bitstream, slice
\* control, in this order: 3 descriptors when qm_size = 0, 4 otherwise; no
\* descriptor at index 4 or beyond is written or handed to the callback.
C8_BatchOrder ==
  \A t \in Threads :
    /\ ~hist[t].oob
    /\ buffer_count[t] <= DESC_CAP
    /\ hist[t].nSubmit = 1 =>
         /\ hist[t].submitted = ExpectedBatch(args[t].qm_size)
         /\ Len(hist[t].submitted) = IF args[t].qm_size = 0 THEN 3 ELSE 4
         /\ Len(hist[t].submitted) = buffer_count[t]

\* a batch of four was handed to Execute
C8_Witness ==
  \E t \in Threads :
    /\ hist[t].nSubmit = 1 /\ args[t].qm_size > 0
    /\ hist[t].submitted[2] = InverseQuantizationMatrix
    /\ hist[t].submitted[DESC_CAP] = SliceControl

\* the span from a successful BeginFrame through the call of EndFrame
SpanPcs == {"pp", "qm", "bs_si", "submit", "end"}
InSpan(t) == pc[t] \in SpanPcs

OneInSpan ==
  /\ Cardinality({t \in Threads : InSpan(t)}) <= 1
  /\ \A t \in Threads : InSpan(t) \/ pc[t] = "end_unlock" => Holds(t)

\* a step in which thread t gives the mutex up
Releases(t) == Holds(t) /\ mutex'.owner # t

ReleaseOnlyThere ==
  \A t \in Threads :
    Releases(t) =>
      \/ ~BeginOK(t) /\ pc[t] = "retry_unlock" /\ pc'[t] = "sleep"
      \/ ~BeginOK(t) /\ pc[t] = "abort" /\ hist[t].nEnd = 0
      \/ BeginOK(t) /\ pc[t] = "end_unlock" /\ hist[t].nEnd = 1

C10_EndFramePerBeginFrame ==
  \A t \in Threads :
    Done(t) /\ hist[t].stBegin \in {"ok", "fail", "busy"} => hist[t].nEnd = 1

\* C10, amended: EndFrame is called exactly once in a call whose
\* BeginFrame succeeded, even when steps in between failed, and not at all
\* in a call whose BeginFrame failed.
C10_EndFramePerSuccessfulBegin ==
  \A t \in Threads :
    /\ hist[t].nEnd <= 1
    /\ hist[t].nEnd = 1 => BeginOK(t)
    /\ Done(t) => hist[t].nEnd = IF BeginOK(t) THEN 1 ELSE 0

\* a call whose BeginFrame failed hard returned without EndFrame
C10_Witness ==
  \E t \in Threads :
    Done(t) /\ hist[t].stBegin = "fail" /\ hist[t].nBegin = 1 /\ hist[t].nEnd = 0

\* a call of ff_dxva2_commit_buffer that has returned / that got its slot
Committed == fn.name = "commit" /\ fn.st = "returned"
GotSlot   == Committed /\ ~FAILED(fn.in.getHr)

\* C11: when the slot was acquired and the payload is larger than the
\* slot, ff_dxva2_commit_buffer returns failure, the slot is released
\* exactly once, no byte of the slot is written and the caller's
\* descriptor is left as it was.
C11_TooLargeStillReleased ==
  GotSlot /\ fn.in.size > fn.in.dxva_size =>
    /\ fn.out.result = -1
    /\ fn.out.acquired = 1 /\ fn.out.released = 1
    /\ fn.out.copied = 0
    /\ fn.out.slot = SlotBefore(fn.in.dxva_size)
    /\ fn.out.dsc = fn.in.dsc

\* a payload of two bytes for a slot of one, on a descriptor filled before
C11_Witness ==
  /\ GotSlot /\ fn.in.size > fn.in.dxva_size /\ fn.in.dxva_size > 0
  /\ fn.in.dsc = FilledBefore /\ fn.in.relHr = S_OK /\ fn.out.released = 1

\* what a successful copy leaves: size payload bytes, then the old bytes
CopiedExactly ==
  /\ fn.out.copied = fn.in.size
  /\ Len(fn.out.slot) = fn.in.dxva_size
  /\ \A i \in 1..fn.in.dxva_size :
       fn.out.slot[i] = IF i <= fn.in.size THEN "data" ELSE "old"
  /\ fn.out.dsc = [type |-> fn.in.type, size |-> fn.in.size,
                   mb |-> fn.in.mb_count, rest |-> "zero"]

\* C12 as stated: for every payload with size <= capacity the call copies
\* exactly size bytes, sets the descriptor and returns success
C12_FitsThenSuccess ==
  GotSlot /\ fn.in.size <= fn.in.dxva_size =>
    CopiedExactly /\ fn.out.result = 0

\* C12, amended: for every payload with size <= capacity (size 0 and
\* size = capacity included) the call copies exactly size bytes into the
\* slot and sets the descriptor to (type, size, macroblock count) with all
\* other fields zero; it returns success if ReleaseBuffer then succeeds
\* and failure if ReleaseBuffer fails.
C12_FitsThenCopied ==
  GotSlot /\ fn.in.size <= fn.in.dxva_size =>
    /\ CopiedExactly
    /\ fn.out.result = IF FAILED(fn.in.relHr) THEN -1 ELSE 0

\* a payload that fills its slot to the last byte, over a garbage descriptor
C12_Witness ==
  /\ GotSlot /\ fn.in.size = fn.in.dxva_size /\ fn.in.size = MaxLen
  /\ fn.in.dsc = Unset /\ fn.out.dsc.rest = "zero" /\ fn.out.result = 0

\* C13: a failed ReleaseBuffer turns the result into failure even when
\* the size test passed, the payload was copied and the descriptor was
\* set; a successful ReleaseBuffer leaves the result of the size test.
C13_ReleaseFailureOverrides ==
  GotSlot =>
    /\ FAILED(fn.in.relHr) => fn.out.result = -1
    /\ ~FAILED(fn.in.relHr) =>
         fn.out.result = IF fn.in.size <= fn.in.dxva_size THEN 0 ELSE -1
    /\ fn.out.released = 1

\* the payload was copied, the descriptor set, and the release failed
C13_Witness ==
  /\ GotSlot /\ FAILED(fn.in.relHr) /\ fn.in.size > 0
  /\ fn.out.copied = fn.in.size /\ fn.out.dsc.type = fn.in.type
  /\ fn.out.result = -1

\* a call of ff_dxva2_get_surface_index that is over
Resolved == fn.name = "surface" /\ fn.st = "returned"
InPool   == \E i \in 1..Len(fn.in.pool) : fn.in.pool[i] = fn.in.surface

\* C14: for the pool-indexed backend the function returns an index i
\* inside the pool with pool[i] the frame's surface, wherever the surface
\* is (first, middle, last); when the surface occurs more than once it
\* returns the smallest such index.
C14_IndexOfSurface ==
  Resolved /\ ~ff_dxva2_is_d3d11 /\ InPool =>
    /\ fn.out.returns /\ ~fn.out.asserted
    /\ fn.out.index \in 0..(Len(fn.in.pool) - 1)
    /\ fn.in.pool[fn.out.index + 1] = fn.in.surface
    /\ \A j \in 0..(fn.out.index - 1) : fn.in.pool[j + 1] # fn.in.surface

\* the surface sits in the middle and again at the end of a full pool
C14_Witness ==
  /\ Resolved /\ ~ff_dxva2_is_d3d11 /\ Len(fn.in.pool) = MaxPool
  /\ fn.in.pool[1] # fn.in.surface
  /\ fn.in.pool[2] = fn.in.surface /\ fn.in.pool[MaxPool] = fn.in.surface
  /\ fn.out.index = 1

\* C15 as stated: for both backends a surface that is absent from the
\* pool stops the process in the assertion; no index is returned
C15_AbsentIsFatal ==
  Resolved /\ ~InPool => fn.out.asserted /\ ~fn.out.returns

\* C15, amended: for the pool-indexed backend built with assertions, a
\* surface absent from the pool stops the process in assert(0) and no
\* index is returned; built with NDEBUG the function returns index 0; for
\* the array-slice backend the pool is not consulted at all and the
\* ArraySlice of the surface's own view descriptor is returned.
C15_AbsentPerBackend ==
  Resolved /\ ~InPool =>
    /\ ~ff_dxva2_is_d3d11 /\ ~fn.in.ndebug => fn.out.asserted /\ ~fn.out.returns
    /\ ~ff_dxva2_is_d3d11 /\ fn.in.ndebug =>
         fn.out.returns /\ ~fn.out.asserted /\ fn.out.index = 0
    /\ ff_dxva2_is_d3d11 =>
         fn.out.returns /\ ~fn.out.asserted /\ fn.out.index = fn.in.slice

\* a full pool without the surface, assertions enabled: the process stops
C15_Witness ==
  /\ Resolved /\ ~InPool /\ Len(fn.in.pool) = MaxPool
  /\ ~ff_dxva2_is_d3d11 /\ ~fn.in.ndebug /\ fn.out.asserted

\* C16: in ff_dxva2_commit_buffer a successful GetBuffer is followed by
\* exactly one ReleaseBuffer of the same buffer type before the call
\* returns, a failed GetBuffer by no copy, no descriptor write and no
\* release; so no slot is outstanding when the next buffer type is
\* committed, when Execute is called, when EndFrame is called or when the
\* transaction returns.
C16_SlotsBorrowedOneAtATime ==
  /\ Committed =>
       /\ fn.out.acquired = IF FAILED(fn.in.getHr) THEN 0 ELSE 1
       /\ fn.out.released = fn.out.acquired
       /\ fn.out.acquired = 1 => fn.out.relType = fn.in.type
       /\ FAILED(fn.in.getHr) =>
            /\ fn.out.result = -1 /\ fn.out.copied = 0
            /\ fn.out.slot = <<>> /\ fn.out.dsc = fn.in.dsc
            /\ fn.out.relType = "none"
  /\ \A t \in Threads :
       /\ hist[t].slotsOut = 0
       /\ hist[t].nCommit <= 2

\* both commits of a transaction are over when Execute is about to be called
C16_Witness ==
  \E t \in Threads :
    pc[t] = "submit" /\ hist[t].nCommit = 2 /\ hist[t].slotsOut = 0

\* the steps of the commit path that have not run
NotRun(t, steps) == \A s \in steps : hist[t][s] = "none"
CommitFailed(t) ==
  hist[t].stPP = "fail" \/ hist[t].stQM = "fail" \/ hist[t].stCB = "fail"

\* C17: the steps of the commit path stop at the first failure: a failed
\* picture-parameters commit skips the quant-matrix commit, the callback
\* and Execute; a failed quant-matrix commit skips the callback and
\* Execute; a failed callback skips Execute; after any of them the call
\* still goes on to EndFrame, releases the lock and returns failure.
C17_StopAtFirstFailure ==
  \A t \in Threads :
    /\ hist[t].stPP = "fail" =>
         /\ NotRun(t, {"stQM", "stCB", "stSubmit"})
         /\ hist[t].nCommit = 1 /\ hist[t].nCallback = 0 /\ hist[t].nSubmit = 0
    /\ hist[t].stQM = "fail" =>
         /\ NotRun(t, {"stCB", "stSubmit"})
         /\ hist[t].nCommit = 2 /\ hist[t].nCallback = 0 /\ hist[t].nSubmit = 0
    /\ hist[t].stCB = "fail" =>
         /\ NotRun(t, {"stSubmit"})
         /\ hist[t].nCallback = 1 /\ hist[t].nSubmit = 0
    /\ CommitFailed(t) =>
         /\ pc[t] \in {"end", "end_unlock", "done"}
         /\ pc[t] = "end" => hist[t].nEnd = 0 /\ hist[t].unlockAfterBegin = 0
         /\ pc[t] = "end_unlock" => hist[t].nEnd = 1 /\ hist[t].unlockAfterBegin = 0
         /\ Done(t) => /\ hist[t].nEnd = 1 /\ hist[t].unlockAfterBegin = 1
                       /\ ~Holds(t) /\ ret[t] = -1

\* a call whose quant-matrix commit failed has returned -1 through an
\* EndFrame that itself succeeded
C17_Witness ==
  \E t \in Threads :
    /\ Done(t) /\ hist[t].stPP = "ok" /\ hist[t].stQM = "fail"
    /\ hist[t].stEnd = "ok" /\ hist[t].nEnd = 1 /\ ret[t] = -1

\* the calls of ff_dxva2_lock minus the calls of ff_dxva2_unlock so far
Balance(t) == hist[t].nLock - hist[t].nUnlock
\* the places where the next thing the thread does is, or follows with the
\* lock still taken, a call into the decoder
HeldPcs == {"begin", "retry_unlock", "abort", "pp", "qm", "bs_si", "submit",
            "end", "end_unlock"}
FreePcs == {"idle", "lock", "sleep", "done"}

\* C20: in one transaction the number of lock acquisitions minus lock
\* releases is always 0 or 1 (the lock is never acquired while held and
\* never released while not held); the lock is held at every BeginFrame
\* attempt, every buffer acquire and release, the callback, Execute and
\* EndFrame; it is not held during a retry sleep nor at the return.
C20_LockDiscipline ==
  \A t \in Threads :
    /\ Balance(t) \in {0, 1}
    /\ pc[t] \in HeldPcs => Balance(t) = 1
    /\ pc[t] \in FreePcs => Balance(t) = 0
    /\ UsesMutex => /\ Holds(t) <=> Balance(t) = 1
                    /\ Holds(t) => mutex.count = 1
                    /\ mutex.owner = 0 => mutex.count = 0
    /\ ~hist[t].heldAtSleep

\* after one busy answer and a sleep the lock is taken again and held at EndFrame
C20_Witness ==
  \E t \in Threads :
    /\ pc[t] = "end" /\ UsesMutex /\ Holds(t) /\ hist[t].nSleep = 1
    /\ hist[t].nLock = 2 /\ hist[t].nUnlock = 1

\* ---- what a transaction calls, told from the answers alone ----
\* the busy answers among the first i entries of a record of calls
Busy(l, i) ==
  Cardinality({j \in 1..i : l[j].call = "BeginFrame" /\ l[j].st = "busy"})

Step(call, type) == [call |-> call, type |-> type]

\* the call that follows the first i entries of l in a transaction whose
\* quant-matrix size is qm; it mentions no property of the session
NextCall(l, i, qm) ==
  IF i = 0 THEN Step("lock", "none")
  ELSE LET e == l[i] IN
    CASE e.call = "lock" -> Step("BeginFrame", "none")
      [] e.call = "BeginFrame" ->
           IF e.st = "ok" THEN Step("GetBuffer", PictureParameters)
           ELSE Step("unlock", "none")
      [] e.call = "unlock" ->
           IF /\ i >= 2 /\ l[i - 1].call = "BeginFrame" /\ l[i - 1].st = "busy"
              /\ Busy(l, i) <= MAX_RUNS
           THEN Step("sleep", "none") ELSE Step("return", "none")
      [] e.call = "sleep" -> Step("lock", "none")
      [] e.call = "GetBuffer" ->
           IF e.st = "ok" THEN Step("ReleaseBuffer", e.type)
           ELSE Step("EndFrame", "none")
      [] e.call = "ReleaseBuffer" ->
           IF e.st = "ok" /\ e.fit
           THEN IF e.type = PictureParameters /\ qm > 0
                THEN Step("GetBuffer", InverseQuantizationMatrix)
                ELSE Step("callback", "none")
           ELSE Step("EndFrame", "none")
      [] e.call = "callback" ->
           IF e.st = "ok" THEN Step("Execute", "none") ELSE Step("EndFrame", "none")
      [] e.call = "Execute" -> Step("EndFrame", "none")
      [] e.call = "EndFrame" -> Step("unlock", "none")

\* the value a transaction with this record returns
ResultOf(l) ==
  IF \A i \in 1..Len(l) : l[i].call \in {"lock", "unlock", "sleep"}
                          \/ (l[i].st = "ok" /\ l[i].fit)
                          \/ (l[i].call = "BeginFrame" /\ l[i].st = "busy"
                              /\ \E j \in (i + 1)..Len(l) : l[j].call = "BeginFrame")
  THEN 0 ELSE -1

\* the record of thread t is what NextCall tells, entry by entry; the
\* thread has returned exactly when NextCall tells so, with ResultOf
FollowsTheAnswers(t) ==
  LET l == hist[t].log
      qm == args[t].qm_size
  IN /\ \A i \in 1..Len(l) :
          Step(l[i].call, l[i].type) = NextCall(l, i - 1, qm)
     /\ pc[t] \notin {"idle", "returned"} =>
          /\ Done(t) <=> NextCall(l, Len(l), qm).call = "return"
          /\ Done(t) => ret[t] = ResultOf(l)

MutexFree == mutex = [owner |-> 0, count |-> 0]

\* C19: for the pool-indexed backend and for an array-slice session
\* without a mutex, ff_dxva2_lock and ff_dxva2_unlock do nothing on any
\* path: the lock never makes the caller wait and no mutex state changes.
\* In every session, with or without a mutex (uncontended), the calls the
\* transaction makes and the value it returns are the same function of the
\* answers it received, so they are the same in all three kinds of session.
C19_LockIsNoOpWithoutMutex ==
  /\ [](~UsesMutex => MutexFree /\ \A t \in Threads : LockEnabled(t))
  /\ [](\A t \in Threads : pc[t] = "lock" => LockEnabled(t))
  /\ [](\A t \in Threads : FollowsTheAnswers(t))
  /\ [][~UsesMutex => mutex' = mutex]_vars

\* a pool-indexed session has slept once, run every step and returned 0
C19_Witness ==
  \E t \in Threads :
    /\ Done(t) /\ cfg.variant = "dxva2" /\ MutexFree
    /\ hist[t].nLock = 2 /\ hist[t].nUnlock = 2 /\ hist[t].nSleep = 1
    /\ hist[t].nSubmit = 1 /\ ret[t] = 0

\* every thread that drives the session has returned from its transaction
AllReturned == \A t \in Threads : Caller(t) => pc[t] = "returned"

\* thread t returns in this step
Returns(t) == pc[t] # "returned" /\ pc'[t] = "returned"

\* what a call whose BeginFrame succeeded has done when it returns
EndedAndReleased(t) ==
  hist[t].nEnd = 1 /\ hist[t].unlockAfterBegin = 1 /\ ~Holds(t)

\* C18: every transaction terminates: each thread that has entered
\* ff_dxva2_common_end_frame returns from it, also when several threads
\* share the session and are scheduled fairly; a call whose BeginFrame
\* succeeded returns only after it has called EndFrame and released the
\* lock; and no thread sleeps or returns while it holds the lock.
C18_EveryTransactionReturns ==
  /\ <>AllReturned
  /\ [][\A t \in Threads : Returns(t) =>
          Done(t) /\ (BeginOK(t) => EndedAndReleased(t))]_vars
  /\ [](\A t \in Threads : pc[t] \in {"sleep", "done", "returned"} => ~Holds(t))

\* one thread waits for the mutex that another holds between BeginFrame and EndFrame
C18_Witness ==
  \E t, u \in Threads :
    /\ t # u /\ UsesMutex
    /\ pc[t] = "lock" /\ hist[t].nSleep = 1
    /\ Holds(u) /\ pc[u] = "end" /\ BeginOK(u)

====
